---- MODULE Spec2Model ----
(***************************************************************************)
(* ClusterPrinterStatus (UM3NetworkPrinting plugin): the projection of a   *)
(* cluster printer status snapshot onto a PrinterOutputModel.              *)
(*                                                                         *)
(* The state is the output model owned by the user interface and the       *)
(* snapshot that was applied to it last.  The model is created by          *)
(* createOutputModel and then updated, any number of times, by             *)
(* updateOutputModel of successive snapshots.                              *)
(*                                                                         *)
(* Python's None is modelled as the empty sequence for optional objects    *)
(* (build_plate, material_station: <<>> or <<object>>) and as NoMaterial   *)
(* for an optional material.                                               *)
(***************************************************************************)
EXTENDS Integers, Sequences, FiniteSets, TLC

VARIABLES model, snapshot

vars == <<model, snapshot>>

(* ------------------------------------------------------------------ *)
(* Bounds of the input sets.                                           *)
(* ------------------------------------------------------------------ *)

\* Longest print core configuration list of a snapshot.
MaxConfigurations == 2

\* Most slots of a material station.
MaxSlots == 4

(* ------------------------------------------------------------------ *)
(* Values.                                                             *)
(* ------------------------------------------------------------------ *)

NoMaterial == "None"

Materials == {"PLA", "ABS"}

\* Sequences over S of length 0..n.
SeqUpTo(S, n) == UNION {[1..k -> S] : k \in 0..n}

Min(a, b) == IF a <= b THEN a ELSE b

(* ------------------------------------------------------------------ *)
(* The output model (cura.PrinterOutput), driven through its setters.  *)
(* ------------------------------------------------------------------ *)

\* ExtruderOutputModel as constructed: no hotend, no material.
ExtruderOutputModel == [hotendID |-> "", activeMaterial |-> NoMaterial]

\* ExtruderConfigurationModel(position) as constructed.
ExtruderConfigurationModel(position) ==
    [position |-> position, hotendID |-> "", material |-> NoMaterial]

\* PrinterOutputModel(controller, number_of_extruders) as constructed.
\* Extruder positions are 0-based, sequence indices 1-based.
PrinterOutputModel(number_of_extruders) ==
    [key |-> "", name |-> "", type |-> "", state |-> "unknown",
     buildplate |-> "", cameraUrl |-> "",
     extruders |-> [i \in 1..number_of_extruders |-> ExtruderOutputModel],
     printerConfiguration |->
        [printerType |-> "", buildplateConfiguration |-> "",
         extruderConfigurations |->
            [i \in 1..number_of_extruders |-> ExtruderConfigurationModel(i - 1)]],
     availableConfigurations |-> <<>>]

updateKey(m, key) == [m EXCEPT !.key = key]

updateName(m, name) == [m EXCEPT !.name = name]

\* The printer type is also the type of the active printer configuration.
updateType(m, printer_type) ==
    [m EXCEPT !.type = printer_type,
              !.printerConfiguration.printerType = printer_type]

updateState(m, printer_state) == [m EXCEPT !.state = printer_state]

\* The build plate is also that of the active printer configuration.
updateBuildplate(m, buildplate) ==
    [m EXCEPT !.buildplate = buildplate,
              !.printerConfiguration.buildplateConfiguration = buildplate]

setCameraUrl(m, url) == [m EXCEPT !.cameraUrl = url]

\* The list of selectable configurations is replaced by the given one.
setAvailableConfigurations(m, new_configurations) ==
    [m EXCEPT !.availableConfigurations = new_configurations]

(* ------------------------------------------------------------------ *)
(* ClusterPrintCoreConfiguration and ClusterPrinterMaterialStationSlot *)
(* ------------------------------------------------------------------ *)

\* configuration.updateOutputModel(extruder_output)
coreUpdateOutputModel(configuration, extruder_output) ==
    [extruder_output EXCEPT !.hotendID = configuration.print_core_id,
                            !.activeMaterial = configuration.material]

\* configuration.updateConfigurationModel(extruder_config)
coreUpdateConfigurationModel(configuration, extruder_config) ==
    [extruder_config EXCEPT !.hotendID = configuration.print_core_id,
                            !.material = configuration.material]

\* slot.createConfigurationModel(): a new extruder configuration at the
\* slot's extruder index, holding the slot's material.
createConfigurationModel(slot) ==
    [ExtruderConfigurationModel(slot.extruder_index) EXCEPT !.material = slot.material]

(* ------------------------------------------------------------------ *)
(* ClusterPrinterStatus                                                *)
(* ------------------------------------------------------------------ *)

\* QUrl("http://{}:8080/?action=stream".format(ip_address))
CameraUrl(ip_address) == "http://" \o ip_address \o ":8080/?action=stream"

\* A slip: the raw status, whether the printer is enabled or not.
ProjectedState_raw(self) == self.status

\* self.status if self.enabled else "disabled"
ProjectedState(self) == IF self.enabled THEN self.status ELSE "disabled"

\* self.build_plate.type if self.build_plate else "glass"
ProjectedBuildplate(self) ==
    IF self.build_plate # <<>> THEN self.build_plate[1].type ELSE "glass"

\* A slip: "some material left" read as material_remaining > 0.
_isSupportedConfiguration_positive(slot, extruder_index) ==
    /\ slot.extruder_index = extruder_index
    /\ slot.compatible
    /\ slot.material # NoMaterial
    /\ slot.material_remaining > 0

_isSupportedConfiguration(slot, extruder_index) ==
    /\ slot.extruder_index = extruder_index
    /\ slot.compatible
    /\ slot.material # NoMaterial
    /\ slot.material_remaining # 0

\* [slot for slot in material_slots if _isSupportedConfiguration(slot, extruder_index)]
SupportedSlots(material_slots, extruder_index) ==
    LET Test(slot) == _isSupportedConfiguration(slot, extruder_index)
    IN  SelectSeq(material_slots, Test)

left_configurations(self) ==
    SupportedSlots(self.material_station[1].material_slots, 0)

\* A slip: the right list filtered with the left extruder's index.
right_configurations_left(self) ==
    SupportedSlots(self.material_station[1].material_slots, 0)

right_configurations(self) ==
    SupportedSlots(self.material_station[1].material_slots, 1)

\* A slip: the loops nested the other way round, the right list's outermost.
RECURSIVE product_rightOuter(_, _)
product_rightOuter(left, right) ==
    IF right = <<>> THEN <<>>
    ELSE [i \in 1..Len(left) |-> <<left[i], Head(right)>>]
            \o product_rightOuter(left, Tail(right))

\* itertools.product(left, right): the pairs in nested-loop order, the
\* first argument's loop outermost.
RECURSIVE product(_, _)
product(left, right) ==
    IF left = <<>> THEN <<>>
    ELSE [j \in 1..Len(right) |-> <<Head(left), right[j]>>]
            \o product(Tail(left), right)

_createAvailableConfigurationFromPrinterConfiguration(left_slot, right_slot, printer_configuration) ==
    [extruderConfigurations |-> <<createConfigurationModel(left_slot),
                                  createConfigurationModel(right_slot)>>,
     printerType |-> printer_configuration.printerType,
     buildplateConfiguration |-> printer_configuration.buildplateConfiguration]

\* The list comprehension over product(left_configurations, right_configurations).
available_configurations(self, m) ==
    LET pairs == product(left_configurations(self), right_configurations(self))
    IN  [k \in 1..Len(pairs) |->
            _createAvailableConfigurationFromPrinterConfiguration(
                pairs[k][1], pairs[k][2], m.printerConfiguration)]

\* A slip: the new combinations are added to the list the model holds.
_updateAvailableConfigurations_append(self, m) ==
    setAvailableConfigurations(
        m, m.availableConfigurations \o available_configurations(self, m))

\* A slip: the list is only set when there is a combination to show.
_updateAvailableConfigurations_skipEmpty(self, m) ==
    IF available_configurations(self, m) = <<>> THEN m
    ELSE setAvailableConfigurations(m, available_configurations(self, m))

_updateAvailableConfigurations(self, m) ==
    setAvailableConfigurations(m, available_configurations(self, m))

\* A slip: each configuration is applied to the extruder its own
\* extruder_index names, not to the one at its list position.
_updateActiveConfiguration_byIndex(self, m) ==
    LET Named(i) == {k \in 1..Len(self.configuration) :
                        self.configuration[k].extruder_index = i - 1}
        Last(S) == CHOOSE k \in S : \A j \in S : j <= k
    IN  [m EXCEPT
            !.extruders =
                [i \in 1..Len(m.extruders) |->
                    IF Named(i) # {}
                    THEN coreUpdateOutputModel(self.configuration[Last(Named(i))],
                                               m.extruders[i])
                    ELSE m.extruders[i]],
            !.printerConfiguration.extruderConfigurations =
                [i \in 1..Len(m.printerConfiguration.extruderConfigurations) |->
                    IF Named(i) # {}
                    THEN coreUpdateConfigurationModel(
                            self.configuration[Last(Named(i))],
                            m.printerConfiguration.extruderConfigurations[i])
                    ELSE m.printerConfiguration.extruderConfigurations[i]]]

\* zip(self.configuration, model.extruders, extruderConfigurations) stops
\* at the shortest of the three lists.
_updateActiveConfiguration(self, m) ==
    LET n == Min(Len(self.configuration),
                 Min(Len(m.extruders),
                     Len(m.printerConfiguration.extruderConfigurations)))
    IN  [m EXCEPT
            !.extruders =
                [i \in 1..Len(m.extruders) |->
                    IF i <= n
                    THEN coreUpdateOutputModel(self.configuration[i], m.extruders[i])
                    ELSE m.extruders[i]],
            !.printerConfiguration.extruderConfigurations =
                [i \in 1..Len(m.printerConfiguration.extruderConfigurations) |->
                    IF i <= n
                    THEN coreUpdateConfigurationModel(
                            self.configuration[i],
                            m.printerConfiguration.extruderConfigurations[i])
                    ELSE m.printerConfiguration.extruderConfigurations[i]]]

\* A slip: the station's slots are not counted.
HasMaterialSlots_stationOnly(self) == self.material_station # <<>>

\* self.material_station is not None and len(self.material_station.material_slots)
HasMaterialSlots(self) ==
    /\ self.material_station # <<>>
    /\ Len(self.material_station[1].material_slots) # 0

\* A slip: the combinations are built before the printer type and the
\* build plate of this snapshot are written to the model.
updateOutputModel_availableFirst(self, m) ==
    LET m1 == updateKey(m, self.uuid)
        m2 == updateName(m1, self.friendly_name)
        m3 == IF HasMaterialSlots(self)
              THEN _updateAvailableConfigurations(self, m2) ELSE m2
        m4 == updateType(m3, self.machine_variant)
        m5 == updateState(m4, ProjectedState(self))
        m6 == updateBuildplate(m5, ProjectedBuildplate(self))
        m7 == setCameraUrl(m6, CameraUrl(self.ip_address))
    IN  _updateActiveConfiguration(self, m7)

\* A slip: the camera URL is never set.
updateOutputModel_noCamera(self, m) ==
    LET m1 == updateKey(m, self.uuid)
        m2 == updateName(m1, self.friendly_name)
        m3 == updateType(m2, self.machine_variant)
        m4 == updateState(m3, ProjectedState(self))
        m5 == updateBuildplate(m4, ProjectedBuildplate(self))
        m7 == IF HasMaterialSlots(self)
              THEN _updateAvailableConfigurations(self, m5) ELSE m5
    IN  _updateActiveConfiguration(self, m7)

updateOutputModel(self, m) ==
    LET m1 == updateKey(m, self.uuid)
        m2 == updateName(m1, self.friendly_name)
        m3 == updateType(m2, self.machine_variant)
        m4 == updateState(m3, ProjectedState(self))
        m5 == updateBuildplate(m4, ProjectedBuildplate(self))
        m6 == setCameraUrl(m5, CameraUrl(self.ip_address))
        m7 == IF HasMaterialSlots(self)
              THEN _updateAvailableConfigurations(self, m6) ELSE m6
    IN  _updateActiveConfiguration(self, m7)

createOutputModel(self) ==
    updateOutputModel(self, PrinterOutputModel(Len(self.configuration)))

(* ------------------------------------------------------------------ *)
(* Inputs: the snapshots a cluster may report.                         *)
(* ------------------------------------------------------------------ *)

ClusterBuildPlate(type) == [type |-> type]

ClusterPrintCoreConfiguration(extruder_index, print_core_id, material) ==
    [extruder_index |-> extruder_index, print_core_id |-> print_core_id,
     material |-> material]

ClusterPrinterMaterialStationSlot(extruder_index, material, compatible, material_remaining) ==
    [extruder_index |-> extruder_index, material |-> material,
     compatible |-> compatible, material_remaining |-> material_remaining]

ClusterPrinterMaterialStation(material_slots) == [material_slots |-> material_slots]

\* The print core configurations a printer reports.  An entry's own
\* extruder_index need not be its position in the list.
CoreConfigurations ==
    {ClusterPrintCoreConfiguration(0, "AA 0.4", "PLA"),
     ClusterPrintCoreConfiguration(1, "BB 0.4", "ABS")}

\* Every slot over the field values: an extruder index that is left (0),
\* right (1) or neither (2); a spool that is unknown (-1), empty (0) or
\* full (1).
SlotDomain ==
    {ClusterPrinterMaterialStationSlot(e, mat, c, r) :
        e \in {0, 1, 2}, mat \in Materials \cup {NoMaterial},
        c \in BOOLEAN, r \in {-1, 0, 1}}

GoodLeft == ClusterPrinterMaterialStationSlot(0, "PLA", TRUE, 1)

GoodRight == ClusterPrinterMaterialStationSlot(1, "ABS", TRUE, 1)

\* The slots long stations are made of: two usable per side, and one
\* for each way of being unusable.
SlotKinds ==
    {GoodLeft, ClusterPrinterMaterialStationSlot(0, "ABS", TRUE, -1),
     GoodRight, ClusterPrinterMaterialStationSlot(1, "PLA", TRUE, 1),
     ClusterPrinterMaterialStationSlot(2, "PLA", TRUE, 1),
     ClusterPrinterMaterialStationSlot(0, "PLA", FALSE, 1),
     ClusterPrinterMaterialStationSlot(1, NoMaterial, TRUE, 1),
     ClusterPrinterMaterialStationSlot(1, "ABS", TRUE, 0)}

BaseStatus ==
    [enabled |-> TRUE, friendly_name |-> "printer-1", ip_address |-> "10.0.0.1",
     machine_variant |-> "Ultimaker 3", status |-> "idle", uuid |-> "uuid-1",
     configuration |-> <<ClusterPrintCoreConfiguration(0, "AA 0.4", "PLA")>>,
     build_plate |-> <<>>, material_station |-> <<>>]

Identities ==
    {[uuid |-> "uuid-1", friendly_name |-> "printer-1", ip_address |-> "10.0.0.1"],
     [uuid |-> "uuid-2", friendly_name |-> "printer-2", ip_address |-> "10.0.0.2"]}

\* Snapshots that differ in identity, enabled flag and status.
ScalarSnapshots ==
    {[BaseStatus EXCEPT !.uuid = id.uuid, !.friendly_name = id.friendly_name,
                        !.ip_address = id.ip_address, !.enabled = e, !.status = st] :
        id \in Identities, e \in BOOLEAN, st \in {"idle", "printing"}}

\* Snapshots that differ in the print core configuration list.
ConfigurationSnapshots ==
    {[BaseStatus EXCEPT !.configuration = c] :
        c \in SeqUpTo(CoreConfigurations, MaxConfigurations)}

\* Snapshots that differ in printer type, build plate and in having no
\* station, a station without slots, or one usable slot per side.
PlateSnapshots ==
    {[BaseStatus EXCEPT !.machine_variant = v, !.build_plate = bp,
                        !.material_station = ms] :
        v \in {"Ultimaker 3", "Ultimaker 3ext"},
        bp \in {<<>>, <<ClusterBuildPlate("glass")>>, <<ClusterBuildPlate("aluminum")>>},
        ms \in {<<>>, <<ClusterPrinterMaterialStation(<<>>)>>,
                <<ClusterPrinterMaterialStation(<<GoodLeft, GoodRight>>)>>}}

\* Snapshots whose station pairs any slot at all with a usable slot of
\* the other side.
PairSnapshots ==
    {[BaseStatus EXCEPT !.material_station = <<ClusterPrinterMaterialStation(ms)>>] :
        ms \in {<<s, GoodRight>> : s \in SlotDomain}
                \cup {<<GoodLeft, s>> : s \in SlotDomain}}

Snapshots ==
    ScalarSnapshots \cup ConfigurationSnapshots \cup PlateSnapshots \cup PairSnapshots

\* Snapshots that differ in a station of up to MaxSlots slots.
StationSnapshots ==
    {[BaseStatus EXCEPT !.material_station = <<ClusterPrinterMaterialStation(ms)>>] :
        ms \in SeqUpTo(SlotKinds, MaxSlots)}

(* ------------------------------------------------------------------ *)
(* The state machine.                                                  *)
(* ------------------------------------------------------------------ *)

\* status.updateOutputModel(model)
Apply(self) ==
    /\ model' = updateOutputModel(self, model)
    /\ snapshot' = self

\* A printer is first seen: its model is created from the snapshot.
Init ==
    \E self \in Snapshots :
        /\ model = createOutputModel(self)
        /\ snapshot = self

\* A later snapshot of the cluster is applied to the model.
UpdateOutputModel == \E self \in Snapshots : Apply(self)

Next == UpdateOutputModel

Spec == Init /\ [][Next]_vars

\* The same, for printers first seen with a long material station.
InitStation ==
    \E self \in StationSnapshots :
        /\ model = createOutputModel(self)
        /\ snapshot = self

RefreshOutputModel == \E self \in PlateSnapshots : Apply(self)

NextStation == RefreshOutputModel

SpecStation == InitStation /\ [][NextStation]_vars

(* ------------------------------------------------------------------ *)
(* Properties.                                                         *)
(* ------------------------------------------------------------------ *)

\* The slots of the station of the snapshot applied last (none without one).
AppliedSlots ==
    IF snapshot.material_station = <<>> THEN <<>>
    ELSE snapshot.material_station[1].material_slots

\* The four conditions of a selectable slot, written out.
Usable(slot, extruder_index) ==
    /\ slot.extruder_index = extruder_index
    /\ slot.compatible = TRUE
    /\ slot.material \in Materials
    /\ slot.material_remaining # 0

\* The positions of the applied station whose slot is usable for an index.
UsablePositions(extruder_index) ==
    {p \in 1..Len(AppliedSlots) : Usable(AppliedSlots[p], extruder_index)}

\* group holds exactly the usable slots, in material_slots order: its
\* k-th entry is the slot at the k-th smallest usable position.
InSlotOrder(group, extruder_index) ==
    /\ Len(group) = Cardinality(UsablePositions(extruder_index))
    /\ \A p \in UsablePositions(extruder_index) :
          group[Cardinality({q \in UsablePositions(extruder_index) : q <= p})]
            = AppliedSlots[p]

\* slot is an entry of group.
InGroup(slot, group) == \E k \in 1..Len(group) : group[k] = slot

\* C1: when the applied snapshot's station has at least one slot, the
\* model's available configurations are |left| x |right| combinations, the
\* one of the i-th supported left slot and the j-th supported right slot at
\* place (i-1)*|right| + j (left loop outer, right loop inner), each group
\* in material_slots order.
C1_AvailableIsOrderedProduct ==
    HasMaterialSlots(snapshot) =>
        LET L == left_configurations(snapshot)
            R == right_configurations(snapshot)
            A == model.availableConfigurations
        IN  /\ InSlotOrder(L, 0)
            /\ InSlotOrder(R, 1)
            /\ Len(A) = Len(L) * Len(R)
            /\ \A i \in 1..Len(L), j \in 1..Len(R) :
                  A[(i - 1) * Len(R) + j].extruderConfigurations
                    = <<createConfigurationModel(L[i]), createConfigurationModel(R[j])>>

\* Two different usable slots on each side, interleaved in the station,
\* and the four combinations in the model.
C1_Witness ==
    /\ HasMaterialSlots(snapshot)
    /\ AppliedSlots = <<ClusterPrinterMaterialStationSlot(1, "ABS", TRUE, 1),
                        ClusterPrinterMaterialStationSlot(0, "PLA", TRUE, 1),
                        ClusterPrinterMaterialStationSlot(1, "PLA", TRUE, 1),
                        ClusterPrinterMaterialStationSlot(0, "ABS", TRUE, -1)>>
    /\ Len(model.availableConfigurations) = 4
    /\ model.availableConfigurations[2].extruderConfigurations[2].material = "PLA"

\* C2: a slot of the applied station is in the supported list of an
\* extruder index exactly when its extruder_index is that index, it is
\* compatible, has a material and material_remaining # 0; and the model
\* holds a combination exactly when both indices have such a slot.
C2_SupportedIffAllFour ==
    /\ \A p \in 1..Len(AppliedSlots) : \A extruder_index \in {0, 1, 2} :
          InGroup(AppliedSlots[p], SupportedSlots(AppliedSlots, extruder_index))
            <=> Usable(AppliedSlots[p], extruder_index)
    /\ HasMaterialSlots(snapshot) =>
          (model.availableConfigurations # <<>>
            <=> UsablePositions(0) # {} /\ UsablePositions(1) # {})

\* A left slot that only lacks material on the spool is left out of the
\* left list, beside a usable right slot: no combination.
C2_Witness ==
    /\ AppliedSlots = <<ClusterPrinterMaterialStationSlot(0, "PLA", TRUE, 0), GoodRight>>
    /\ ~InGroup(AppliedSlots[1], left_configurations(snapshot))
    /\ InGroup(AppliedSlots[2], right_configurations(snapshot))
    /\ model.availableConfigurations = <<>>

\* C3 as stated: a slot is in the left list exactly when its
\* extruder_index is 0 and in the right list exactly when it is 1.
C3_GroupIffIndex ==
    \A p \in 1..Len(AppliedSlots) :
        /\ InGroup(AppliedSlots[p], SupportedSlots(AppliedSlots, 0))
              <=> AppliedSlots[p].extruder_index = 0
        /\ InGroup(AppliedSlots[p], SupportedSlots(AppliedSlots, 1))
              <=> AppliedSlots[p].extruder_index = 1

\* C3, amended: a slot is in the left list exactly when its extruder_index
\* is 0 and it is supported, in the right list exactly when it is 1 and it
\* is supported; a slot of another index is in neither and no slot is in
\* both; so every combination of the model pairs a slot of extruder 0 with
\* a slot of extruder 1.
C3_GroupIffIndexAndSupported ==
    HasMaterialSlots(snapshot) =>
        LET L == left_configurations(snapshot)
            R == right_configurations(snapshot)
            A == model.availableConfigurations
        IN  /\ \A p \in 1..Len(AppliedSlots) :
                  LET slot == AppliedSlots[p]
                      rest == /\ slot.compatible
                              /\ slot.material # NoMaterial
                              /\ slot.material_remaining # 0
                  IN  /\ InGroup(slot, L) <=> (slot.extruder_index = 0 /\ rest)
                      /\ InGroup(slot, R) <=> (slot.extruder_index = 1 /\ rest)
                      /\ slot.extruder_index \notin {0, 1}
                            => ~InGroup(slot, L) /\ ~InGroup(slot, R)
                      /\ ~(InGroup(slot, L) /\ InGroup(slot, R))
            /\ \A k \in 1..Len(A) :
                  /\ \E p \in 1..Len(AppliedSlots) :
                        /\ AppliedSlots[p].extruder_index = 0
                        /\ A[k].extruderConfigurations[1]
                             = createConfigurationModel(AppliedSlots[p])
                  /\ \E p \in 1..Len(AppliedSlots) :
                        /\ AppliedSlots[p].extruder_index = 1
                        /\ A[k].extruderConfigurations[2]
                             = createConfigurationModel(AppliedSlots[p])

\* A station with a usable slot per side, a slot of extruder index 2 and
\* an incompatible slot of index 0: one combination.
C3_Witness ==
    /\ AppliedSlots = <<ClusterPrinterMaterialStationSlot(2, "PLA", TRUE, 1),
                        ClusterPrinterMaterialStationSlot(0, "PLA", FALSE, 1),
                        GoodLeft, GoodRight>>
    /\ Len(model.availableConfigurations) = 1

\* C4: applying a snapshot without a material station, or with a station
\* of zero slots, leaves the model's available configurations as they
\* were; a model created from such a snapshot has the default, empty list.
C4_NoSlotsKeepsAvailable ==
    /\ ~HasMaterialSlots(snapshot) /\ model = createOutputModel(snapshot)
          => model.availableConfigurations = <<>>
    /\ [][(snapshot'.material_station = <<>>
            \/ Len(snapshot'.material_station[1].material_slots) = 0)
           => model'.availableConfigurations = model.availableConfigurations]_vars

\* A station of zero slots was applied and the model still shows the
\* combinations of an earlier snapshot.
C4_Witness ==
    /\ snapshot.material_station = <<ClusterPrinterMaterialStation(<<>>)>>
    /\ model.availableConfigurations # <<>>

\* C5: with N configurations and M extruders, the i-th extruder and its
\* configuration hold the i-th configuration's print core and material for
\* i <= min(N, M), whatever that configuration's extruder_index; an update
\* leaves the extruders beyond N as they were, and never changes M.
C5_ActivePairedByPosition ==
    /\ [](\A i \in 1..Min(Len(snapshot.configuration), Len(model.extruders)) :
            /\ model.extruders[i]
                 = coreUpdateOutputModel(snapshot.configuration[i], ExtruderOutputModel)
            /\ model.printerConfiguration.extruderConfigurations[i]
                 = coreUpdateConfigurationModel(snapshot.configuration[i],
                                                ExtruderConfigurationModel(i - 1)))
    /\ [][/\ Len(model'.extruders) = Len(model.extruders)
           /\ Len(model'.printerConfiguration.extruderConfigurations)
                = Len(model.extruders)
           /\ \A i \in 1..Len(model.extruders) :
                i > Len(snapshot'.configuration) =>
                    /\ model'.extruders[i] = model.extruders[i]
                    /\ model'.printerConfiguration.extruderConfigurations[i]
                         = model.printerConfiguration.extruderConfigurations[i]]_vars

\* One configuration, naming extruder 1, was applied to a model of two
\* extruders: it is on the first, and the second keeps an earlier core.
C5_Witness ==
    /\ Len(snapshot.configuration) = 1
    /\ snapshot.configuration[1].extruder_index = 1
    /\ Len(model.extruders) = 2
    /\ model.extruders[1].hotendID = "BB 0.4"
    /\ model.extruders[2].hotendID = "AA 0.4"

\* C6: the model's state is "disabled" when the applied snapshot is not
\* enabled, and its raw status when it is.
C6_DisabledWins ==
    /\ ~snapshot.enabled => model.state = "disabled"
    /\ snapshot.enabled => model.state = snapshot.status

\* A disabled printer that reports "printing".
C6_Witness ==
    /\ ~snapshot.enabled
    /\ snapshot.status = "printing"
    /\ model.state = "disabled"

\* C7: applying the snapshot applied last once more leaves the model as
\* it is.
C7_Idempotent == updateOutputModel(snapshot, model) = model

\* A snapshot with combinations and a configuration, applied to a model
\* that earlier snapshots had shaped differently.
C7_Witness ==
    /\ HasMaterialSlots(snapshot)
    /\ Len(model.availableConfigurations) = 1
    /\ Len(snapshot.configuration) = 1
    /\ model # createOutputModel(snapshot)

\* C8 as stated: the model is what the snapshot applied last makes of a
\* new model with as many extruders, whatever was applied before.
C8_LastSnapshotAlone ==
    model = updateOutputModel(snapshot, PrinterOutputModel(Len(model.extruders)))

\* C8, amended: key, name, type, state, build plate and camera URL are
\* those of the snapshot applied last; so are the first min(N, M)
\* extruders, and the available configurations when that snapshot's
\* station has at least one slot.
C8_LastSnapshotWhereWritten ==
    LET fresh == updateOutputModel(snapshot, PrinterOutputModel(Len(model.extruders)))
        n == Min(Len(snapshot.configuration), Len(model.extruders))
    IN  /\ model.key = snapshot.uuid
        /\ model.name = snapshot.friendly_name
        /\ model.type = snapshot.machine_variant
        /\ model.printerConfiguration.printerType = snapshot.machine_variant
        /\ model.state = fresh.state
        /\ model.buildplate = fresh.buildplate
        /\ model.printerConfiguration.buildplateConfiguration = fresh.buildplate
        /\ fresh.buildplate \in {"glass", "aluminum"}
        /\ model.cameraUrl = "http://" \o snapshot.ip_address \o ":8080/?action=stream"
        /\ \A i \in 1..n :
              /\ model.extruders[i] = fresh.extruders[i]
              /\ model.printerConfiguration.extruderConfigurations[i]
                   = fresh.printerConfiguration.extruderConfigurations[i]
        /\ HasMaterialSlots(snapshot)
              => model.availableConfigurations = fresh.availableConfigurations

\* A snapshot with a combination and one configuration was applied to a
\* model of two extruders whose second extruder earlier snapshots had set.
C8_Witness ==
    /\ HasMaterialSlots(snapshot)
    /\ model.availableConfigurations # <<>>
    /\ Len(snapshot.configuration) = 1
    /\ Len(model.extruders) = 2
    /\ model.extruders[2].hotendID # ""
    /\ model.key = snapshot.uuid

\* C9: every combination of the model, when the applied snapshot's station
\* has a slot, holds two extruder configurations, the left slot's first,
\* and the printer type and build plate of that same snapshot (the build
\* plate's type, "glass" without a build plate).
C9_CombinationsOfThisSnapshot ==
    HasMaterialSlots(snapshot) =>
        \A k \in 1..Len(model.availableConfigurations) :
            LET c == model.availableConfigurations[k]
            IN  /\ Len(c.extruderConfigurations) = 2
                /\ \E p \in UsablePositions(0) :
                      c.extruderConfigurations[1]
                        = createConfigurationModel(AppliedSlots[p])
                /\ \E p \in UsablePositions(1) :
                      c.extruderConfigurations[2]
                        = createConfigurationModel(AppliedSlots[p])
                /\ c.printerType = snapshot.machine_variant
                /\ c.buildplateConfiguration
                     = IF snapshot.build_plate = <<>> THEN "glass"
                       ELSE snapshot.build_plate[1].type

\* A combination of an "Ultimaker 3ext" with an aluminum build plate, on a
\* model with two extruders (so not one created from this snapshot).
C9_Witness ==
    /\ HasMaterialSlots(snapshot)
    /\ snapshot.machine_variant = "Ultimaker 3ext"
    /\ snapshot.build_plate = <<ClusterBuildPlate("aluminum")>>
    /\ Len(model.availableConfigurations) = 1
    /\ model.availableConfigurations[1].buildplateConfiguration = "aluminum"
    /\ Len(model.extruders) = 2

\* C10: when the applied snapshot's station has a slot but one of the two
\* supported lists is empty, the model's available configurations are the
\* empty list.
C10_EmptyGroupClearsAvailable ==
    (/\ HasMaterialSlots(snapshot)
     /\ \/ left_configurations(snapshot) = <<>>
        \/ right_configurations(snapshot) = <<>>)
    => model.availableConfigurations = <<>>

\* A station whose only right slot is incompatible was applied.
C10_Witness ==
    /\ AppliedSlots = <<GoodLeft, ClusterPrinterMaterialStationSlot(1, "ABS", FALSE, 1)>>
    /\ left_configurations(snapshot) # <<>>
    /\ right_configurations(snapshot) = <<>>
    /\ model.availableConfigurations = <<>>

====
